---- MODULE Spec2Model ----
(***************************************************************************)
(* Moon Read Catalog Bot (src/bot.py).                                     *)
(*                                                                         *)
(* main() loads the catalog, builds the Telegraph pages letter by letter   *)
(* (generate_telegraph_pages), and only then starts polling for commands.   *)
(* The model follows main()'s control flow with the variable pc, keeps the  *)
(* two module globals BOOKS and TELEGRAPH_LINKS, and records the message    *)
(* each command handler sends in the variable reply.                        *)
(*                                                                         *)
(* A title is a sequence of one-character strings, so that lower(),         *)
(* upper(), isalpha(), indexing and the substring test are computed and     *)
(* not assumed.                                                             *)
(***************************************************************************)
EXTENDS Integers, Sequences, FiniteSets, TLC

VARIABLES
    pc,               \* main()'s position: load, generate, publish, sleep, polling, exited
    source,           \* the CSV file: [readable, rows]
    BOOKS,            \* global BOOKS (bot.py:33)
    TELEGRAPH_LINKS,  \* global TELEGRAPH_LINKS (bot.py:34): letter -> [url, count]
    books_by_letter,  \* local of generate_telegraph_pages: letter -> list of books
    sorted_letters,   \* local of generate_telegraph_pages
    i,                \* index of the for loop of generate_telegraph_pages (1-based)
    attempts,         \* history: number of telegraph.create_page calls made
    delays,           \* history: number of time.sleep(10) calls made
    failed,           \* history: letters whose create_page raised
    request,          \* the last command received: [cmd, args]
    results,          \* local `results` of the last search_command run
    reply             \* the message the last handler sent

vars == <<pc, source, BOOKS, TELEGRAPH_LINKS, books_by_letter, sorted_letters, i,
          attempts, delays, failed, request, results, reply>>

(***************************************************************************)
(* Bounds of the model.                                                    *)
(***************************************************************************)
\* longest catalog of the exhaustive family
MaxBooks == 3
\* longest repeated pattern of the long catalogs
MaxBase == 2
\* the long catalogs run up to SearchCap + MaxOver rows
MaxOver == 2

(***************************************************************************)
(* Characters: what str.lower, str.upper, str.isalpha and the code point    *)
(* order of sorted() do on the characters the model uses.                   *)
(***************************************************************************)
Chars == {"a", "A", "b", "B", "7", " ", "#"}

Lower(c) == CASE c = "A" -> "a" [] c = "B" -> "b" [] OTHER -> c

Upper(c) == CASE c = "a" -> "A" [] c = "b" -> "B" [] OTHER -> c

IsAlpha(c) == c \in {"a", "A", "b", "B"}

Ord(c) == CASE c = " " -> 32 [] c = "#" -> 35 [] c = "7" -> 55
            [] c = "A" -> 65 [] c = "B" -> 66 [] c = "a" -> 97 [] c = "b" -> 98

\* str.lower() of a whole string
LowerStr(s) == [k \in 1..Len(s) |-> Lower(s[k])]

\* Python's `needle in hay` on strings: some slice of hay equals needle
IsSubstring(needle, hay) ==
    \E off \in 0..(Len(hay) - Len(needle)) :
        \A k \in 1..Len(needle) : hay[off + k] = needle[k]

\* ' '.join(words)
RECURSIVE Join(_)
Join(words) ==
    IF Len(words) = 0 THEN <<>>
    ELSE IF Len(words) = 1 THEN words[1]
    ELSE words[1] \o <<" ">> \o Join(Tail(words))

\* list[:n]
Take(s, n) == IF Len(s) <= n THEN s ELSE SubSeq(s, 1, n)

(***************************************************************************)
(* Inputs.                                                                 *)
(***************************************************************************)
Titles == { <<>>,                  \* empty title
            <<"A", "b">>,          \* Ab
            <<"b", "a">>,          \* ba
            <<"7", " ", "A">> }    \* 7 A

\* The rows the catalogs are made of; two rows share a title and differ in link.
BookPool == { [title |-> t, link |-> "u1"] : t \in Titles }
              \cup { [title |-> <<"A", "b">>, link |-> "u2"] }

\* The rows of the long catalogs.
LongPool == { [title |-> <<"A", "b">>, link |-> "u1"],
              [title |-> <<"b", "a">>, link |-> "u1"] }

SeqsUpTo(S, n) == UNION { [1..m -> S] : m \in 0..n }

\* base repeated cyclically to length n
Rep(base, n) == [k \in 1..n |-> base[((k - 1) % Len(base)) + 1]]

\* context.args: the words a user may type after /search
ArgLists == { <<>>,
              << <<"a">> >>,
              << <<"A", "B">> >>,
              << <<"7">> >>,
              << <<"7">>, <<"a">> >>,
              << <<"b">>, <<"A", "B">> >> }

\* response['path']: telegra.ph names the page after its title, which names the letter
Paths(letter) == { <<"Moon-Read-Catalog", letter>> }

\* len(results) above which search_command truncates
SearchCap == 20

ShortCatalogs == SeqsUpTo(BookPool, MaxBooks)

\* lengths around the cap, and around twice the cap for patterns that match
\* every other row
LongLengths == ((SearchCap - 1)..(SearchCap + MaxOver))
                  \cup ((2 * SearchCap)..(2 * SearchCap + MaxOver))

LongCatalogs ==
    { Rep(base, n) : base \in (SeqsUpTo(LongPool, MaxBase) \ {<<>>}),
                     n \in LongLengths }

NoRequest == [cmd |-> "none", args |-> <<>>]

NoReply == [kind |-> "None"]

EmptyDict == [x \in {} |-> 0]

InitWith(catalogs) ==
    /\ pc = "load"
    /\ source \in { [readable |-> r, rows |-> c] : r \in BOOLEAN, c \in catalogs }
    /\ BOOKS = <<>>
    /\ TELEGRAPH_LINKS = EmptyDict
    /\ books_by_letter = EmptyDict
    /\ sorted_letters = <<>>
    /\ i = 0
    /\ attempts = 0
    /\ delays = 0
    /\ failed = {}
    /\ request = NoRequest
    /\ results = <<>>
    /\ reply = NoReply

Init == InitWith(ShortCatalogs)

InitLong == InitWith(LongCatalogs)

(***************************************************************************)
(* load_catalog and the start of main.                                     *)
(***************************************************************************)
\* load_catalog returns True; main goes on to generate the pages
load_catalog_ok ==
    /\ pc = "load"
    /\ source.readable
    /\ BOOKS' = source.rows
    /\ pc' = "generate"
    /\ UNCHANGED <<source, TELEGRAPH_LINKS, books_by_letter, sorted_letters, i,
                   attempts, delays, failed, request, results, reply>>

\* a main that ignores load_catalog's result and goes on with the empty catalog
load_catalog_fail_goes_on ==
    /\ pc = "load"
    /\ ~source.readable
    /\ BOOKS' = <<>>
    /\ pc' = "generate"
    /\ UNCHANGED <<source, TELEGRAPH_LINKS, books_by_letter, sorted_letters, i,
                   attempts, delays, failed, request, results, reply>>

\* open() or the csv reader raised: BOOKS = [], load_catalog returns False and
\* main prints "Failed to load catalog!" and returns
load_catalog_fail ==
    /\ pc = "load"
    /\ ~source.readable
    /\ BOOKS' = <<>>
    /\ pc' = "exited"
    /\ UNCHANGED <<source, TELEGRAPH_LINKS, books_by_letter, sorted_letters, i,
                   attempts, delays, failed, request, results, reply>>

(***************************************************************************)
(* generate_telegraph_pages.                                               *)
(***************************************************************************)
\* book['title'][0] raises IndexError on an empty title
RaisesIndexError(book) == Len(book.title) = 0

\* lines 62-64 (and 385-386): the bucket of a book whose title is not empty
first_letter(book) ==
    LET c == Upper(book.title[1])
    IN  IF IsAlpha(c) THEN c ELSE "#"

\* lines 60-68: the grouping loop, from book k on
RECURSIVE GroupLoop(_, _, _)
GroupLoop(books, k, acc) ==
    IF k > Len(books) THEN acc
    ELSE LET l == first_letter(books[k])
         IN  GroupLoop(books, k + 1,
                 IF l \in DOMAIN acc
                 THEN [acc EXCEPT ![l] = Append(@, books[k])]
                 ELSE acc @@ (l :> <<books[k]>>))

\* sorted(keys): ascending code points
RECURSIVE Sorted(_)
Sorted(S) ==
    IF S = {} THEN <<>>
    ELSE LET m == CHOOSE x \in S : \A y \in S : Ord(x) <= Ord(y)
         IN  <<m>> \o Sorted(S \ {m})

\* plain sorted(keys), which puts '#' before the letters
LettersPlainSorted(keys) == Sorted(keys)

\* lines 71 and 336: the letters ascending, then '#' when present
LettersThenHash(keys) ==
    Sorted(keys \ {"#"}) \o (IF "#" \in keys THEN <<"#">> ELSE <<>>)

\* an entry that counts the whole catalog instead of the letter's books
LinkEntryCountsAll(path, books) ==
    [url |-> <<"https://telegra.ph/", path>>, count |-> Len(BOOKS)]

\* lines 96-99: the entry stored for a letter
LinkEntry(path, books) ==
    [url |-> <<"https://telegra.ph/", path>>, count |-> Len(books)]

\* lines 59-71: group and sort; an empty title raises IndexError, which the outer
\* except (line 114) catches: generate_telegraph_pages returns False before any
\* page is created, and main goes on to start the bot.
generate_group ==
    /\ pc = "generate"
    /\ IF \E k \in 1..Len(BOOKS) : RaisesIndexError(BOOKS[k])
       THEN /\ pc' = "polling"
            /\ UNCHANGED <<books_by_letter, sorted_letters, i>>
       ELSE LET g == GroupLoop(BOOKS, 1, EmptyDict)
            IN  /\ books_by_letter' = g
                /\ sorted_letters' = LettersThenHash(DOMAIN g)
                /\ i' = 1
                /\ pc' = IF DOMAIN g = {} THEN "polling" ELSE "publish"
    /\ UNCHANGED <<source, BOOKS, TELEGRAPH_LINKS, attempts, delays, failed,
                   request, results, reply>>

\* line 104: a delay follows unless this was the last letter
DelayFollows(k, n) == k < n

\* lines 89-105: create_page succeeded for sorted_letters[i]; the entry is stored
\* in one assignment and the delay follows unless this was the last letter
create_page_ok ==
    /\ pc = "publish"
    /\ LET letter == sorted_letters[i]
       IN  \E path \in Paths(letter) :
              TELEGRAPH_LINKS' =
                 [l \in DOMAIN TELEGRAPH_LINKS \cup {letter} |->
                     IF l = letter THEN LinkEntry(path, books_by_letter[letter])
                     ELSE TELEGRAPH_LINKS[l]]
    /\ attempts' = attempts + 1
    /\ IF DelayFollows(i, Len(sorted_letters))
       THEN pc' = "sleep" /\ i' = i
       ELSE pc' = "polling" /\ i' = i + 1
    /\ UNCHANGED <<source, BOOKS, books_by_letter, sorted_letters, delays, failed,
                   request, results, reply>>

\* lines 107-109: create_page raised; the error is logged and the loop goes on
\* to the next letter at once (the sleep is inside the try block)
create_page_fail ==
    /\ pc = "publish"
    /\ attempts' = attempts + 1
    /\ failed' = failed \cup {sorted_letters[i]}
    /\ i' = i + 1
    /\ pc' = IF i < Len(sorted_letters) THEN "publish" ELSE "polling"
    /\ UNCHANGED <<source, BOOKS, TELEGRAPH_LINKS, books_by_letter, sorted_letters,
                   delays, request, results, reply>>

\* line 105: time.sleep(10) returns
sleep ==
    /\ pc = "sleep"
    /\ delays' = delays + 1
    /\ i' = i + 1
    /\ pc' = "publish"
    /\ UNCHANGED <<source, BOOKS, TELEGRAPH_LINKS, books_by_letter, sorted_letters,
                   attempts, failed, request, results, reply>>

(***************************************************************************)
(* The command handlers.  main registers them after the pages are built     *)
(* (lines 443-454) and run_polling (line 468) dispatches the updates, one   *)
(* handler run at a time.  A handler sends its HTML message; when that send *)
(* raises, it sends its plain fallback message instead.                     *)
(***************************************************************************)
\* a bot that polls while the pages are still being built
CanHandleDuringBuild == pc \in {"publish", "sleep", "polling"}

\* lines 436-468: handlers run once main has reached run_polling
CanHandle == pc = "polling"

build == <<source, BOOKS, TELEGRAPH_LINKS, books_by_letter, sorted_letters, i,
           attempts, delays, failed>>

\* line 259: the list comprehension, from book k on
RECURSIVE SearchLoop(_, _, _)
SearchLoop(books, keyword, k) ==
    IF k > Len(books) THEN <<>>
    ELSE (IF IsSubstring(keyword, LowerStr(books[k].title)) THEN <<books[k]>> ELSE <<>>)
         \o SearchLoop(books, keyword, k + 1)

\* a keyword that is joined but not lower-cased
KeywordAsTyped(args) == Join(args)

\* line 258
Keyword(args) == LowerStr(Join(args))

\* a slice that keeps one result too many
limited_results_one_more(res) == Take(res, SearchCap + 1)

\* line 269
limited_results(res) == Take(res, SearchCap)

\* lines 271-284: the HTML message
SearchMessage(res) ==
    [kind |-> "SearchResults", html |-> TRUE,
     found |-> Len(res),
     showing_first |-> Len(res) > SearchCap,
     items |-> limited_results(res),
     more |-> IF Len(res) > SearchCap THEN Len(res) - SearchCap ELSE 0]

\* lines 291-293: the fallback message carries the count and the listed books only
SearchFallback(res) ==
    [kind |-> "SearchResults", html |-> FALSE,
     found |-> Len(res),
     showing_first |-> FALSE,
     items |-> limited_results(res),
     more |-> 0]

\* lines 244-294
search_command ==
    /\ CanHandle
    /\ \E args \in ArgLists :
        /\ request' = [cmd |-> "search", args |-> args]
        /\ IF Len(args) = 0
           THEN /\ results' = <<>>
                /\ reply' = [kind |-> "Validation"]
           ELSE LET res == SearchLoop(BOOKS, Keyword(args), 1)
                IN  /\ results' = res
                    /\ IF Len(res) = 0
                       THEN reply' = [kind |-> "NoMatch", keyword |-> Keyword(args)]
                       ELSE \/ reply' = SearchMessage(res)
                            \/ reply' = SearchFallback(res)
    /\ UNCHANGED <<pc, build>>

\* a choice that never picks the last book
RandomChoicesButLast(books) == 1..(Len(books) - 1)

\* line 306: the indices random.choice may pick
RandomChoices(books) == 1..Len(books)

\* lines 298-320: the HTML message and the fallback carry the same book
random_book ==
    /\ CanHandle
    /\ request' = [cmd |-> "random", args |-> <<>>]
    /\ results' = <<>>
    /\ IF Len(BOOKS) = 0
       THEN reply' = [kind |-> "CatalogNotLoaded"]
       ELSE \E k \in RandomChoices(BOOKS) :
               reply' = [kind |-> "RandomBook", book |-> BOOKS[k]]
    /\ UNCHANGED <<pc, build>>

\* buttons per keyboard row (line 345)
RowLen == 6

\* lines 338-347: the keyboard rows, from letter k on
RECURSIVE KeyboardLoop(_, _, _, _, _)
KeyboardLoop(links, letters, k, row, keyboard) ==
    IF k > Len(letters) THEN keyboard
    ELSE LET data == links[letters[k]]
             row2 == Append(row, [letter |-> letters[k], count |-> data.count,
                                   url |-> data.url])
         IN  IF Len(row2) = RowLen \/ letters[k] = letters[Len(letters)]
             THEN KeyboardLoop(links, letters, k + 1, <<>>, Append(keyboard, row2))
             ELSE KeyboardLoop(links, letters, k + 1, row2, keyboard)

\* line 327
LinksReady(links) == DOMAIN links # {}

\* lines 323-372: both the HTML message and the fallback carry the keyboard
catalog_command ==
    /\ CanHandle
    /\ request' = [cmd |-> "catalog", args |-> <<>>]
    /\ results' = <<>>
    /\ IF ~LinksReady(TELEGRAPH_LINKS)
       THEN reply' = [kind |-> "NotReady"]
       ELSE reply' = [kind |-> "CatalogLinks", total |-> Len(BOOKS),
                      keyboard |-> KeyboardLoop(TELEGRAPH_LINKS,
                                      LettersThenHash(DOMAIN TELEGRAPH_LINKS),
                                      1, <<>>, <<>>)]
    /\ UNCHANGED <<pc, build>>

\* lines 383-387: the counting loop, from book k on
RECURSIVE CountLoop(_, _, _)
CountLoop(books, k, letter_counts) ==
    IF k > Len(books) THEN letter_counts
    ELSE LET l == first_letter(books[k])
         IN  CountLoop(books, k + 1,
                 IF l \in DOMAIN letter_counts
                 THEN [letter_counts EXCEPT ![l] = @ + 1]
                 ELSE letter_counts @@ (l :> 1))

\* lines 394-395: one line per letter, in sorted() order
StatsLines(letter_counts) ==
    LET order == Sorted(DOMAIN letter_counts)
    IN  [k \in 1..Len(order) |-> [letter |-> order[k], count |-> letter_counts[order[k]]]]

\* lines 375-404: an empty title raises IndexError at line 385, outside the
\* try block, so the handler ends without sending anything; the fallback
\* message carries the total only
stats_command ==
    /\ CanHandle
    /\ request' = [cmd |-> "stats", args |-> <<>>]
    /\ results' = <<>>
    /\ IF Len(BOOKS) = 0
       THEN reply' = [kind |-> "CatalogNotLoaded"]
       ELSE IF \E k \in 1..Len(BOOKS) : RaisesIndexError(BOOKS[k])
       THEN reply' = [kind |-> "Raised", error |-> "IndexError"]
       ELSE \/ reply' = [kind |-> "Stats", html |-> TRUE, total |-> Len(BOOKS),
                         lines |-> StatsLines(CountLoop(BOOKS, 1, EmptyDict))]
            \/ reply' = [kind |-> "Stats", html |-> FALSE, total |-> Len(BOOKS),
                         lines |-> <<>>]
    /\ UNCHANGED <<pc, build>>

Command == search_command \/ random_book \/ catalog_command \/ stats_command

Next ==
    \/ load_catalog_ok
    \/ load_catalog_fail
    \/ generate_group
    \/ create_page_ok
    \/ create_page_fail
    \/ sleep
    \/ search_command
    \/ random_book
    \/ catalog_command
    \/ stats_command

Spec == Init /\ [][Next]_vars

SpecLong == InitLong /\ [][Next]_vars

(***************************************************************************)
(* Vocabulary of the properties.                                           *)
(***************************************************************************)
\* the bucket of a title as the specification defines it: '#' for an empty title
LetterBucket(title) ==
    IF Len(title) = 0 THEN "#"
    ELSE IF IsAlpha(title[1]) THEN Upper(title[1]) ELSE "#"

BucketsOf(books) == { LetterBucket(books[k].title) : k \in DOMAIN books }

BucketSize(books, L) == Cardinality({ k \in DOMAIN books : LetterBucket(books[k].title) = L })

NoEmptyTitle == \A k \in DOMAIN BOOKS : Len(BOOKS[k].title) > 0

BuildEnded == pc = "polling"

\* kw occurs in t as a contiguous slice
ContainsSlice(t, kw) ==
    \E a \in 1..Len(t) :
        /\ a + Len(kw) - 1 <= Len(t)
        /\ SubSeq(t, a, a + Len(kw) - 1) = kw

\* the rows of BOOKS whose lower-cased title contains the lower-cased keyword
MatchIdx(args) ==
    { k \in DOMAIN BOOKS :
        ContainsSlice(LowerStr(BOOKS[k].title), LowerStr(Join(args))) }

\* the position of row k among the matching rows
Rank(M, k) == Cardinality({ j \in M : j <= k })

\* the buttons of a keyboard, row after row
RECURSIVE Flatten(_)
Flatten(rows) == IF Len(rows) = 0 THEN <<>> ELSE Head(rows) \o Flatten(Tail(rows))

\* letters before '#', letters ascending
InBucketOrder(letters) ==
    \A p, q \in 1..Len(letters) :
        p < q => /\ letters[p] # "#"
                 /\ (letters[q] = "#" \/ Ord(letters[p]) < Ord(letters[q]))

\* the letters whose create_page call has returned a page
Succeeded == { sorted_letters[k] : k \in 1..attempts } \ failed

(***************************************************************************)
(* C1: one run of the page build over a catalog with N non-empty buckets    *)
(* makes exactly N publish attempts and exactly N-1 delays (0 when N <= 1), *)
(* a delay between every two consecutive attempts, whatever attempts fail.  *)
(* Stated for catalogs without an empty title.                              *)
(***************************************************************************)
C1_AttemptsAndDelays ==
    LET N == Cardinality(BucketsOf(BOOKS))
    IN  /\ (BuildEnded /\ NoEmptyTitle) =>
               /\ attempts = N
               /\ delays = (IF N <= 1 THEN 0 ELSE N - 1)
        /\ pc = "publish" => delays = attempts

(***************************************************************************)
(* C2 as claimed: while the build is in progress (publishing or suspended   *)
(* in a delay) a catalog command can be handled.                            *)
(***************************************************************************)
C2_CommandsDuringBuild ==
    pc \in {"publish", "sleep"} => ENABLED catalog_command

(***************************************************************************)
(* C2 amended: the build runs inside main before polling starts.  Until the *)
(* build has ended no command can be handled and none has been; once main   *)
(* polls, a catalog command can be handled, and it is answered NotReady     *)
(* when the index is empty.                                                 *)
(***************************************************************************)
C2_BuildBeforeCommands ==
    /\ pc \in {"load", "generate", "publish", "sleep"} =>
          /\ ~ENABLED Command
          /\ request = NoRequest
          /\ reply = NoReply
    /\ pc = "polling" => ENABLED catalog_command
    /\ (request.cmd = "catalog" /\ DOMAIN TELEGRAPH_LINKS = {}) => reply.kind = "NotReady"

C2_Witness ==
    /\ pc = "polling"
    /\ delays > 0
    /\ request.cmd = "catalog"

(***************************************************************************)
(* C3: a search with no argument is answered with the validation message    *)
(* and computes nothing; otherwise `results` is exactly the rows of BOOKS,  *)
(* in catalog order and with duplicates, whose lower-cased title contains   *)
(* the lower-cased keyword, and NoMatch is answered iff there is none.      *)
(***************************************************************************)
C3_SearchExact ==
    request.cmd = "search" =>
        IF request.args = <<>>
        THEN reply.kind = "Validation" /\ results = <<>>
        ELSE LET M == MatchIdx(request.args)
             IN  /\ reply.kind # "Validation"
                 /\ Len(results) = Cardinality(M)
                 /\ \A k \in M : results[Rank(M, k)] = BOOKS[k]
                 /\ reply.kind = "NoMatch" <=> M = {}

C3_Witness ==
    /\ request.cmd = "search"
    /\ request.args = << <<"A", "B">> >>
    /\ Len(results) = 2
    /\ results[1] # results[2]
    /\ Len(BOOKS) = 3

(***************************************************************************)
(* C4 as claimed: a search reply with M >= 1 matches reports M; it lists    *)
(* all M and is not marked truncated when M <= 20; it lists the first 20,   *)
(* is marked truncated and reports M - 20 hidden results when M > 20.       *)
(***************************************************************************)
C4_Pagination ==
    reply.kind = "SearchResults" =>
        LET M == Len(results)
        IN  /\ M >= 1
            /\ reply.found = M
            /\ IF M <= 20
               THEN reply.items = results /\ ~reply.showing_first
               ELSE /\ Len(reply.items) = 20
                    /\ \A k \in 1..20 : reply.items[k] = results[k]
                    /\ reply.showing_first
                    /\ reply.more = M - 20

(***************************************************************************)
(* C4 amended: every search reply with M >= 1 matches, HTML or fallback,    *)
(* reports M and lists the first min(M, 20) matches in catalog order; the   *)
(* HTML reply is marked truncated iff M > 20 and then reports M - 20 hidden *)
(* results; the fallback reply carries neither the mark nor a hidden count. *)
(***************************************************************************)
C4_PaginationHtml ==
    reply.kind = "SearchResults" =>
        LET M == Len(results)
            idx == MatchIdx(request.args)
        IN  /\ M >= 1
            /\ reply.found = M
            /\ Len(reply.items) = (IF M <= 20 THEN M ELSE 20)
            /\ \A k \in idx : Rank(idx, k) <= 20 => reply.items[Rank(idx, k)] = BOOKS[k]
            /\ reply.html =>
                  /\ reply.showing_first <=> M > 20
                  /\ reply.more = (IF M > 20 THEN M - 20 ELSE 0)
            /\ ~reply.html => (~reply.showing_first /\ reply.more = 0)

C4_Witness ==
    /\ reply.kind = "SearchResults"
    /\ reply.html
    /\ reply.showing_first
    /\ reply.more = 1
    /\ Len(BOOKS) > Len(results)

(***************************************************************************)
(* C5: on every non-empty catalog, one with an empty title included, stats  *)
(* completes without error, and the counts it shows put every record in     *)
(* exactly one bucket: each count is the size of its bucket, none is        *)
(* negative, and they sum to the number of records.                         *)
(***************************************************************************)
C5_StatsCounts ==
    (request.cmd = "stats" /\ Len(BOOKS) > 0) =>
        /\ reply.kind = "Stats"
        /\ reply.html =>
              /\ { reply.lines[p].letter : p \in DOMAIN reply.lines } = BucketsOf(BOOKS)
              /\ \A p \in DOMAIN reply.lines :
                    /\ reply.lines[p].count >= 0
                    /\ reply.lines[p].count = BucketSize(BOOKS, reply.lines[p].letter)
              /\ \A p, q \in DOMAIN reply.lines :
                    p # q => reply.lines[p].letter # reply.lines[q].letter

(***************************************************************************)
(* C6: stats lists its buckets with every letter before '#', the letters    *)
(* ascending: the order of the page build and of the catalog keyboard.      *)
(***************************************************************************)
C6_StatsOrder ==
    (reply.kind = "Stats" /\ reply.html) =>
        InBucketOrder([p \in DOMAIN reply.lines |-> reply.lines[p].letter])

(***************************************************************************)
(* C7: a catalog command is answered NotReady iff TELEGRAPH_LINKS is empty; *)
(* otherwise its keyboard holds every letter of the index exactly once,     *)
(* with that letter's url and count, letters ascending and '#' last.        *)
(***************************************************************************)
C7_CatalogLinks ==
    request.cmd = "catalog" =>
        /\ reply.kind \in {"NotReady", "CatalogLinks"}
        /\ reply.kind = "NotReady" <=> DOMAIN TELEGRAPH_LINKS = {}
        /\ reply.kind = "CatalogLinks" =>
              LET buttons == Flatten(reply.keyboard)
              IN  /\ Len(buttons) > 0
                  /\ { buttons[p].letter : p \in DOMAIN buttons } = DOMAIN TELEGRAPH_LINKS
                  /\ Len(buttons) = Cardinality(DOMAIN TELEGRAPH_LINKS)
                  /\ \A p \in DOMAIN buttons :
                        /\ buttons[p].url = TELEGRAPH_LINKS[buttons[p].letter].url
                        /\ buttons[p].count = TELEGRAPH_LINKS[buttons[p].letter].count
                  /\ InBucketOrder([p \in DOMAIN buttons |-> buttons[p].letter])

C7_Witness ==
    /\ reply.kind = "CatalogLinks"
    /\ failed # {}
    /\ Len(Flatten(reply.keyboard)) = 2
    /\ Flatten(reply.keyboard)[2].letter = "#"

(***************************************************************************)
(* C8: random on an empty catalog answers "catalog not loaded" and no book; *)
(* on a non-empty catalog it answers a record of BOOKS, and whatever was    *)
(* answered before, every record of BOOKS can be the next answer.           *)
(***************************************************************************)
C8_Random ==
    /\ request.cmd = "random" =>
          IF Len(BOOKS) = 0
          THEN reply.kind = "CatalogNotLoaded"
          ELSE /\ reply.kind = "RandomBook"
               /\ \E k \in DOMAIN BOOKS : reply.book = BOOKS[k]
    /\ (pc = "polling" /\ Len(BOOKS) > 0) =>
          \A k \in DOMAIN BOOKS :
              ENABLED (random_book /\ reply' = [kind |-> "RandomBook", book |-> BOOKS[k]])

C8_Witness ==
    /\ reply.kind = "RandomBook"
    /\ Len(BOOKS) = 3
    /\ reply.book = BOOKS[3]
    /\ BOOKS[1] # BOOKS[3]
    /\ BOOKS[2] # BOOKS[3]

(***************************************************************************)
(* C9 as claimed: after a failed load the process survives and goes on to   *)
(* serve commands with the empty catalog.                                   *)
(***************************************************************************)
C9_SurvivesLoadError ==
    (~source.readable /\ pc # "load") => (BOOKS = <<>> /\ pc # "exited")

(***************************************************************************)
(* C9 amended: when reading the source fails, BOOKS is the empty sequence   *)
(* and main returns: no page is built and no command is ever served.  An    *)
(* empty catalog is served only when the source was read and has no rows,   *)
(* and then search answers NoMatch, random and stats answer "catalog not    *)
(* loaded" and catalog answers NotReady.                                    *)
(***************************************************************************)
C9_LoadErrorExits ==
    /\ (~source.readable /\ pc # "load") =>
          /\ pc = "exited"
          /\ BOOKS = <<>>
          /\ attempts = 0
          /\ DOMAIN TELEGRAPH_LINKS = {}
          /\ request = NoRequest
          /\ reply = NoReply
          /\ ~ENABLED Next
    /\ pc = "exited" => ~source.readable
    /\ (pc = "polling" /\ BOOKS = <<>>) =>
          /\ source.readable
          /\ (request.cmd = "search" /\ request.args # <<>>) => reply.kind = "NoMatch"
          /\ request.cmd = "random" => reply.kind = "CatalogNotLoaded"
          /\ request.cmd = "stats" => reply.kind = "CatalogNotLoaded"
          /\ request.cmd = "catalog" => reply.kind = "NotReady"

C9_Witness ==
    /\ pc = "exited"
    /\ Len(source.rows) > 0

(***************************************************************************)
(* C10: at every step of the build and after it, TELEGRAPH_LINKS holds      *)
(* exactly the letters whose publish attempt succeeded, none that failed,   *)
(* each with a complete {url, count} entry whose count is the size of the   *)
(* letter's bucket; an entry once written is never removed or changed, and  *)
(* a catalog command answered with links is never later answered NotReady.  *)
(***************************************************************************)
C10_IndexEntries ==
    [][ /\ \A L \in DOMAIN TELEGRAPH_LINKS :
              L \in DOMAIN TELEGRAPH_LINKS' /\ TELEGRAPH_LINKS'[L] = TELEGRAPH_LINKS[L]
        /\ DOMAIN TELEGRAPH_LINKS' = Succeeded'
        /\ DOMAIN TELEGRAPH_LINKS' \cap failed' = {}
        /\ \A L \in DOMAIN TELEGRAPH_LINKS' :
              /\ DOMAIN TELEGRAPH_LINKS'[L] = {"url", "count"}
              /\ TELEGRAPH_LINKS'[L].count = BucketSize(BOOKS', L)
        /\ reply.kind = "CatalogLinks" => reply'.kind # "NotReady"
      ]_vars

C10_Witness ==
    /\ pc = "polling"
    /\ failed # {}
    /\ \E L \in DOMAIN TELEGRAPH_LINKS : TELEGRAPH_LINKS[L].count = 2

====
